---- MODULE Spec2Model ----
(***************************************************************************)
(* Model of the two HTTP services of the repository:                       *)
(*   src/autocrop/api.py            POST /convert  (convert_video)         *)
(*   src/minio-organizer/organize.py  organize_files, move_file,           *)
(*                                    organize_all_root_files              *)
(* Python strings are sequences of one-character strings, so that          *)
(* lstrip, split, startswith, basename and unquote are computed on the     *)
(* characters as the library computes them.                                *)
(***************************************************************************)
EXTENDS Integers, Sequences, FiniteSets, TLC

VARIABLES
    url,          \* codec: the URL handed to parse_minio_url
    svc,          \* codec: which service's parse_minio_url ran ("none" before)
    parsed,       \* codec: the (bucket, key) it returned, <<>> before
    store,        \* object storage: a function from <<bucket, key>> to content
    files,        \* convert: the local temporary paths that exist, with content
    cpc,          \* convert: the request's position in convert_video
    data,         \* convert: the request's JSON body
    temp_input,   \* convert: None or the input temporary file's handle
    temp_output,  \* convert: None or the output temporary file's handle
    input_ref,    \* convert: (bucket, input_key) decoded from input_url
    output_key,   \* convert: the resolved output key
    result,       \* convert: what subprocess.run returned
    uploads,      \* convert: the upload_file calls made, in order
    response,     \* convert: the response returned
    req,          \* organizer: each organize_files request's locals and position
    backend,      \* organizer: "unreliable" when storage calls may fail on their own
    faults,       \* organizer: how many storage calls have failed on their own
    store0,       \* organizer: the storage state before the first request
    root          \* organizer: the call of organize_all_root_files

codecVars    == <<url, svc, parsed>>
organizeVars == <<req, backend, faults, store0, root>>
convertVars == <<files, cpc, data, temp_input, temp_output, input_ref,
                 output_key, result, uploads, response>>
vars == <<codecVars, store, convertVars, organizeVars>>

----------------------------------------------------------------------------
(* Bounds of the model *)

\* longest URL path, after its leading "/", the codec is run on
MaxPathLen == 5

\* longest list of URLs one organize request carries
MaxUrls == 2

\* how many times the caller sends the same organize request
MaxCalls == 2

\* how many keys one list_objects_v2 response holds. The S3 API returns at
\* most 1000 keys per call; organize_all_root_files depends on the number
\* only through whether the bucket holds more keys than one response, so
\* the model runs with a small page and buckets of up to PageSize + 1 root
\* objects.
PageSize == 3

----------------------------------------------------------------------------
(* Configuration: module-level settings of both services *)

\* MINIO_ENDPOINT 'http://minio:9000', shortened to scheme "h", host "m"
MINIO_ENDPOINT == <<"h", ":", "/", "/", "m">>

\* MINIO_BUCKET 'nca-toolkit', shortened to one character
MINIO_BUCKET == <<"n">>

----------------------------------------------------------------------------
(* Python string operations *)

\* all sequences over S of length at most n
RECURSIVE SeqsUpTo(_, _)
SeqsUpTo(S, n) ==
    IF n = 0 THEN {<<>>}
    ELSE LET shorter == SeqsUpTo(S, n - 1)
         IN  shorter \cup {Append(t, c) : t \in {x \in shorter : Len(x) = n - 1}, c \in S}

Drop(s, n) == SubSeq(s, n + 1, Len(s))

\* str.find: index (1-based) of the first c in s, 0 when there is none
Find(s, c) ==
    IF \E i \in 1..Len(s) : s[i] = c
    THEN CHOOSE i \in 1..Len(s) : s[i] = c /\ \A j \in 1..(i - 1) : s[j] # c
    ELSE 0

\* str.rfind: index of the last c in s, 0 when there is none
RFind(s, c) ==
    IF \E i \in 1..Len(s) : s[i] = c
    THEN CHOOSE i \in 1..Len(s) : s[i] = c /\ \A j \in (i + 1)..Len(s) : s[j] # c
    ELSE 0

\* str.startswith
StartsWith(s, p) == Len(p) <= Len(s) /\ SubSeq(s, 1, Len(p)) = p

\* s.lstrip('/')
RECURSIVE LStripSlash(_)
LStripSlash(s) ==
    IF s # <<>> /\ s[1] = "/" THEN LStripSlash(Tail(s)) ELSE s

\* s.split('/', 1): one part when s has no '/', else the parts around the first
SplitSlash1(s) ==
    LET i == Find(s, "/")
    IN  IF i = 0 THEN <<s>> ELSE <<SubSeq(s, 1, i - 1), Drop(s, i)>>

\* urlparse(url).path for a URL without query, fragment or parameters:
\* the scheme runs to the first ':', a following '//' opens the netloc, which
\* runs to the next '/', and the path is the rest
UrlPath(u) ==
    LET i    == Find(u, ":")
        rest == IF i = 0 THEN u ELSE Drop(u, i)
    IN  IF StartsWith(rest, <<"/", "/">>)
        THEN LET r == Drop(rest, 2)
                 j == Find(r, "/")
             IN  IF j = 0 THEN <<>> ELSE Drop(r, j - 1)
        ELSE rest

\* the hex digits the escapes of the modelled URLs are written with
HexDigits == {"2", "F"}

\* the character of the byte two hex digits name, decoded as UTF-8 with
\* errors='replace': 0x22 and 0x2F are ASCII; 0xF2 and 0xFF start no valid
\* sequence here (no continuation byte can follow) and become U+FFFD
HexToChar(a, b) ==
    CASE a = "2" /\ b = "2" -> "\""
      [] a = "2" /\ b = "F" -> "/"
      [] OTHER              -> "U+FFFD"

\* urllib.parse.unquote: every '%' followed by two hex digits becomes the
\* byte they name; any other '%' is kept as it is
RECURSIVE unquote(_)
unquote(s) ==
    IF s = <<>> THEN <<>>
    ELSE IF s[1] = "%" /\ Len(s) >= 3 /\ s[2] \in HexDigits /\ s[3] \in HexDigits
         THEN <<HexToChar(s[2], s[3])>> \o unquote(Drop(s, 3))
         ELSE <<s[1]>> \o unquote(Tail(s))

----------------------------------------------------------------------------
(* URL Codec *)

\* src/autocrop/api.py parse_minio_url: no percent-decoding
autocrop_parse_minio_url(u) ==
    LET path_parts == SplitSlash1(LStripSlash(UrlPath(u)))
    IN  IF Len(path_parts) = 2
        THEN <<path_parts[1], path_parts[2]>>
        ELSE <<MINIO_BUCKET, path_parts[1]>>

\* src/minio-organizer/organize.py parse_minio_url: the key is unquoted
organize_parse_minio_url(u) ==
    LET path_parts == SplitSlash1(LStripSlash(UrlPath(u)))
    IN  IF Len(path_parts) = 2
        THEN <<path_parts[1], unquote(path_parts[2])>>
        ELSE <<MINIO_BUCKET, unquote(path_parts[1])>>

\* JSON values that are not strings, and an absent field
JsonNumber == <<"<number>">>
Missing    == <<"<missing>">>

\* Python's None, for a temporary-file handle not yet made
None == "None"

Resp(status, success, error) ==
    [status |-> status, success |-> success, error |-> error]

\* before a request arrives: no body, no subprocess result, no response
NoData     == [input_url |-> Missing, output_key |-> Missing]
NoResult   == [outcome |-> "none", effect |-> "none"]
NoResponse == Resp(0, FALSE, "none")

\* the variables of convert_video while no convert request is modelled
ConvertUnused ==
    /\ files = {}
    /\ cpc = "unused"
    /\ data = NoData
    /\ temp_input = None
    /\ temp_output = None
    /\ input_ref = <<>>
    /\ output_key = <<>>
    /\ result = NoResult
    /\ uploads = <<>>
    /\ response = NoResponse

\* organize_all_root_files has not been called
NoRootCall ==
    [pc |-> "idle", execution_folder |-> <<>>, bucket |-> <<>>,
     Contents |-> <<>>, listed |-> FALSE, new_urls |-> <<>>]

\* the variables of the organizer while no organize request is modelled
OrganizeUnused ==
    /\ req = <<>>
    /\ backend = "unused"
    /\ faults = 0
    /\ store0 = {}
    /\ root = NoRootCall

PathChars == {"/", "k", "%", "2", "F"}

\* the URLs the codec is run on: the endpoint followed by nothing or by a path
CodecUrls ==
    {MINIO_ENDPOINT} \cup
    {MINIO_ENDPOINT \o <<"/">> \o t : t \in SeqsUpTo(PathChars, MaxPathLen)}

CodecInit ==
    /\ url \in CodecUrls
    /\ svc = "none"
    /\ parsed = <<>>
    /\ store = {}
    /\ ConvertUnused
    /\ OrganizeUnused

ParseAutocrop ==
    /\ svc = "none"
    /\ svc' = "autocrop"
    /\ parsed' = autocrop_parse_minio_url(url)
    /\ UNCHANGED <<url, store, convertVars, organizeVars>>

ParseOrganizer ==
    /\ svc = "none"
    /\ svc' = "organizer"
    /\ parsed' = organize_parse_minio_url(url)
    /\ UNCHANGED <<url, store, convertVars, organizeVars>>

CodecNext == ParseAutocrop \/ ParseOrganizer

SpecCodec == CodecInit /\ [][CodecNext]_vars


----------------------------------------------------------------------------
(* Claims about the URL Codec, checked under SpecCodec *)

\* every '%' of raw opens an escape of an ASCII character
WellFormedEscapes(raw) ==
    \A i \in 1..Len(raw) :
        raw[i] = "%" =>
            /\ i + 2 <= Len(raw)
            /\ <<raw[i + 1], raw[i + 2]>> \in {<<"2", "2">>, <<"2", "F">>}

\* the escape of a character, by RFC 3986
EscapeOf(c) == IF c = "/" THEN <<"%", "2", "F">> ELSE <<"%", "2", "2">>

\* raw is a percent-encoding of plain: character by character, raw holds the
\* character itself or its escape
RECURSIVE IsPercentEncodingOf(_, _)
IsPercentEncodingOf(raw, plain) ==
    IF raw = <<>> \/ plain = <<>> THEN raw = <<>> /\ plain = <<>>
    ELSE IF raw[1] = "%"
         THEN /\ plain[1] \in {"/", "\""}
              /\ StartsWith(raw, EscapeOf(plain[1]))
              /\ IsPercentEncodingOf(Drop(raw, 3), Tail(plain))
         ELSE /\ plain[1] = raw[1]
              /\ IsPercentEncodingOf(Tail(raw), Tail(plain))

\* the statement of C4 for the service s
CodecDecodes(s) ==
    svc = s =>
        LET p == Drop(url, Len(MINIO_ENDPOINT) + 1)
            i == Find(p, "/")
        IN  /\ (i > 1 /\ WellFormedEscapes(Drop(p, i))) =>
                /\ parsed[1] = SubSeq(p, 1, i - 1)
                /\ IsPercentEncodingOf(Drop(p, i), parsed[2])
            /\ (i = 0 /\ p # <<>> /\ WellFormedEscapes(p)) =>
                /\ parsed[1] = MINIO_BUCKET
                /\ IsPercentEncodingOf(p, parsed[2])

\* C4: in both services, for every URL scheme://host/bucket/key the codec
\* returns (bucket, key) with the key percent-decoded, and for every URL with
\* a single path segment it returns (MINIO_BUCKET, segment) with the segment
\* percent-decoded.
C4_BothCodecsDecode == CodecDecodes("autocrop") /\ CodecDecodes("organizer")

\* the half of C4 that is about organize.py alone
OrganizerCodecDecodes == CodecDecodes("organizer")

\* C7: a key the URL Codec produces never begins with '/'. Both services
\* hand the key to a storage call as it is (download_file at api.py:98,
\* copy_object at organize.py:52).
C7_KeyNeverBeginsWithSlash ==
    svc \in {"autocrop", "organizer"} => ~StartsWith(parsed[2], <<"/">>)

----------------------------------------------------------------------------
(* Object storage: a set of objects, at most one per (bucket, key) *)

Obj(b, k, c) == [bucket |-> b, key |-> k, content |-> c]

Exists(st, b, k) == \E o \in st : o.bucket = b /\ o.key = k

ContentOf(st, b, k) == (CHOOSE o \in st : o.bucket = b /\ o.key = k).content

\* the content stored at a key, "absent" when there is none
Stored(st, b, k) == IF Exists(st, b, k) THEN ContentOf(st, b, k) ELSE "absent"

\* put_object / upload_file / the destination side of copy_object
Put(st, b, k, c) == {o \in st : ~(o.bucket = b /\ o.key = k)} \cup {Obj(b, k, c)}

\* delete_object: deleting an absent key succeeds and changes nothing
Delete(st, b, k) == {o \in st : ~(o.bucket = b /\ o.key = k)}

----------------------------------------------------------------------------
(* Conversion Orchestrator: src/autocrop/api.py convert_video *)

CodecUnused ==
    /\ url = <<>>
    /\ svc = "unused"
    /\ parsed = <<>>

\* os.path.splitext(p)[0]: cut at the last '.', when it lies after the last
\* '/' and some character between that '/' and it is not a '.'
SplitextStem(p) ==
    LET sepIndex == RFind(p, "/")
        dotIndex == RFind(p, ".")
    IN  IF /\ dotIndex > sepIndex
           /\ \E i \in (sepIndex + 1)..(dotIndex - 1) : p[i] # "."
        THEN SubSeq(p, 1, dotIndex - 1)
        ELSE p

\* '_vertical.mp4', shortened
VerticalSuffix == <<"_", "v", ".", "m">>

\* lines 107-113: the explicit output_key when present and non-empty,
\* else <stem(input_key)>_vertical.mp4
ResolveOutputKey(d, input_key) ==
    IF d.output_key # Missing /\ d.output_key # <<>>
    THEN d.output_key
    ELSE SplitextStem(input_key) \o VerticalSuffix

File(p, c) == [path |-> p, content |-> c]

PathExists(fs, p) == \E f \in fs : f.path = p

Unlink(fs, p) == {f \in fs : f.path # p}

WriteFile(fs, p, c) == Unlink(fs, p) \cup {File(p, c)}

\* a finally block that forgets the output file
finally_cleanup_input_only(ti, to, fs) ==
    IF ti # None /\ PathExists(fs, ti) THEN Unlink(fs, ti) ELSE fs

\* the finally block, lines 186-197: each temporary file whose handle was
\* made and whose path exists is unlinked. os.unlink of an existing path
\* removes it; the bare except clauses around it are never entered.
finally_cleanup(ti, to, fs) ==
    LET fs1 == IF ti # None /\ PathExists(fs, ti) THEN Unlink(fs, ti) ELSE fs
    IN  IF to # None /\ PathExists(fs1, to) THEN Unlink(fs1, to) ELSE fs1

\* a return statement inside the try: the response, then the finally block
Returns(resp, ti, to, fs) ==
    /\ response' = resp
    /\ cpc' = "returned"
    /\ files' = finally_cleanup(ti, to, fs)

ConvertUrls ==
    { MINIO_ENDPOINT \o <<"/", "b", "/", "c", ".", "m">>,
      MINIO_ENDPOINT \o <<"/", "c", ".", "m">>,
      MINIO_ENDPOINT \o <<"/", "b", "/", "/", "c", ".", "m">>,
      MINIO_ENDPOINT \o <<"/", "b", "/", "c", "%", "2", "2">> }

ConvertRequests ==
    [input_url : ConvertUrls \cup {Missing, JsonNumber},
     output_key : {Missing, <<>>, <<"o", ".", "m">>}]

ConvertObjects ==
    { Obj(<<"b">>, <<"c", ".", "m">>, "video"),
      Obj(MINIO_BUCKET, <<"c", ".", "m">>, "video"),
      Obj(<<"b">>, <<"c", "\"">>, "video") }

ConvertInit ==
    /\ CodecUnused
    /\ store \in SUBSET ConvertObjects
    /\ files = {}
    /\ cpc = "idle"
    /\ data = NoData
    /\ temp_input = None
    /\ temp_output = None
    /\ input_ref = <<>>
    /\ output_key = <<>>
    /\ result = NoResult
    /\ uploads = <<>>
    /\ response = NoResponse
    /\ OrganizeUnused

\* lines 76-94: validation, URL decoding, the two NamedTemporaryFile calls.
\* A body without input_url returns 400; a non-string input_url makes
\* urlparse raise, and either NamedTemporaryFile call may raise OSError:
\* both reach the except Exception clause (500) and then the finally block.
Receive ==
    /\ cpc = "idle"
    /\ \E d \in ConvertRequests :
        /\ data' = d
        /\ IF d.input_url = Missing
           THEN /\ Returns(Resp(400, FALSE, "missing input_url"), None, None, files)
                /\ UNCHANGED <<temp_input, temp_output, input_ref>>
           ELSE IF d.input_url = JsonNumber
           THEN /\ Returns(Resp(500, FALSE, "unexpected"), None, None, files)
                /\ UNCHANGED <<temp_input, temp_output, input_ref>>
           ELSE /\ input_ref' = autocrop_parse_minio_url(d.input_url)
                /\ \E made \in {"none", "input", "both"} :
                     CASE made = "none" ->
                            /\ Returns(Resp(500, FALSE, "unexpected"), None, None, files)
                            /\ UNCHANGED <<temp_input, temp_output>>
                       [] made = "input" ->
                            /\ temp_input' = "in"
                            /\ temp_output' = None
                            /\ Returns(Resp(500, FALSE, "unexpected"), "in", None,
                                       WriteFile(files, "in", "empty"))
                       [] made = "both" ->
                            /\ temp_input' = "in"
                            /\ temp_output' = "out"
                            /\ files' = WriteFile(WriteFile(files, "in", "empty"),
                                                  "out", "empty")
                            /\ cpc' = "downloading"
                            /\ UNCHANGED response
    /\ UNCHANGED <<codecVars, store, output_key, result, uploads, organizeVars>>

\* lines 96-115: download_file, which fails when the object is absent or the
\* storage call fails, then the output key
Download ==
    /\ cpc = "downloading"
    /\ \E ok \in BOOLEAN :
        IF ok /\ Exists(store, input_ref[1], input_ref[2])
        THEN /\ files' = WriteFile(files, temp_input,
                                   ContentOf(store, input_ref[1], input_ref[2]))
             /\ output_key' = ResolveOutputKey(data, input_ref[2])
             /\ cpc' = "converting"
             /\ UNCHANGED response
        ELSE /\ Returns(Resp(404, FALSE, "download failed"),
                        temp_input, temp_output, files)
             /\ UNCHANGED output_key
    /\ UNCHANGED <<codecVars, store, data, temp_input, temp_output, input_ref,
                   result, uploads, organizeVars>>

\* what the external executable did to the output path it was given
ExecEffect(fs, to, effect) ==
    CASE effect = "written"   -> WriteFile(fs, to, "vertical")
      [] effect = "removed"   -> Unlink(fs, to)
      [] effect = "untouched" -> fs

\* lines 117-149: subprocess.run with timeout=600, the return code test and
\* the os.path.exists test of the output path
Run ==
    /\ cpc = "converting"
    /\ \E outcome \in {"timeout", "oserror", "nonzero", "zero"},
          effect \in {"written", "removed", "untouched"} :
        LET fs == ExecEffect(files, temp_output, effect)
        IN  /\ outcome = "oserror" => effect = "untouched"
            /\ result' = [outcome |-> outcome, effect |-> effect]
            /\ CASE outcome = "timeout" ->
                      Returns(Resp(408, FALSE, "timed out"), temp_input, temp_output, fs)
                 [] outcome = "oserror" ->
                      Returns(Resp(500, FALSE, "unexpected"), temp_input, temp_output, fs)
                 [] outcome = "nonzero" ->
                      Returns(Resp(500, FALSE, "conversion failed"),
                              temp_input, temp_output, fs)
                 [] outcome = "zero" ->
                      IF ~PathExists(fs, temp_output)
                      THEN Returns(Resp(500, FALSE, "output not created"),
                                   temp_input, temp_output, fs)
                      ELSE /\ files' = fs
                           /\ cpc' = "uploading"
                           /\ UNCHANGED response
    /\ UNCHANGED <<codecVars, store, data, temp_input, temp_output, input_ref,
                   output_key, uploads, organizeVars>>

\* lines 151-171: upload_file and the success response
Upload ==
    /\ cpc = "uploading"
    /\ \E ok \in BOOLEAN :
        IF ok
        THEN /\ store' = Put(store, input_ref[1], output_key,
                             (CHOOSE f \in files : f.path = temp_output).content)
             /\ uploads' = Append(uploads, <<input_ref[1], output_key>>)
             /\ Returns(Resp(200, TRUE, ""), temp_input, temp_output, files)
        ELSE /\ Returns(Resp(500, FALSE, "upload failed"),
                        temp_input, temp_output, files)
             /\ UNCHANGED <<store, uploads>>
    /\ UNCHANGED <<codecVars, data, temp_input, temp_output, input_ref,
                   output_key, result, organizeVars>>

ConvertNext == Receive \/ Download \/ Run \/ Upload

SpecConvert == ConvertInit /\ [][ConvertNext]_vars

----------------------------------------------------------------------------
(* The inputs of the organizer *)

Url(path) == MINIO_ENDPOINT \o path

\* the URLs a request may name: a root object, two objects of different
\* prefixes with one basename, an object inside folder "e" (plain and with
\* its '/' percent-encoded), and a JSON number where a string is expected
OrganizeUrls ==
    { Url(<<"/", "n", "/", "x">>),
      Url(<<"/", "n", "/", "p", "/", "x">>),
      Url(<<"/", "n", "/", "q", "/", "x">>),
      Url(<<"/", "n", "/", "e", "/", "x">>),
      Url(<<"/", "n", "/", "e", "%", "2", "F", "x">>),
      JsonNumber }

UrlLists == SeqsUpTo(OrganizeUrls, MaxUrls)

Folders == {<<"e">>, <<"p">>}

AllObjects ==
    { Obj(MINIO_BUCKET, <<"x">>, "c1"),
      Obj(MINIO_BUCKET, <<"p", "/", "x">>, "c2"),
      Obj(MINIO_BUCKET, <<"q", "/", "x">>, "c3"),
      Obj(MINIO_BUCKET, <<"e", "/", "x">>, "c4") }

\* the storage states a behaviour may start from
OrganizeStores ==
    { AllObjects,
      AllObjects \ {Obj(MINIO_BUCKET, <<"x">>, "c1")},
      AllObjects \ {Obj(MINIO_BUCKET, <<"e", "/", "x">>, "c4")} }

----------------------------------------------------------------------------
(* Relocation Engine: src/minio-organizer/organize.py *)

\* os.path.basename: what follows the last '/'
basename(p) == Drop(p, RFind(p, "/"))

\* copy_object: raises when the backend fails or the source key is absent,
\* else writes the source's content at the destination key
copy_object(st, b, src, dst, ok) ==
    IF ok /\ Exists(st, b, src)
    THEN [store |-> Put(st, b, dst, ContentOf(st, b, src)), raised |-> FALSE]
    ELSE [store |-> st, raised |-> TRUE]

\* delete_object: raises when the backend fails, else removes the key
delete_object(st, b, k, ok) ==
    IF ok THEN [store |-> Delete(st, b, k), raised |-> FALSE]
    ELSE [store |-> st, raised |-> TRUE]

\* a move_file that reports success although delete_object raised
move_file_result_ignoring_delete(delete_raised) == TRUE

\* move_file's result once delete_object has returned or raised: the except
\* clause turns the exception into False
move_file_result(delete_raised) == ~delete_raised

\* an organize_files without the test of line 136
already_in_folder_never(source_key, execution_folder) == FALSE

\* line 136: the test for a key that is already inside the folder
already_in_folder(source_key, execution_folder) ==
    StartsWith(source_key, execution_folder \o <<"/">>)

\* line 145
dest_key_of(execution_folder, source_key) ==
    execution_folder \o <<"/">> \o basename(source_key)

\* line 149
new_url_of(bucket, dest_key) ==
    MINIO_ENDPOINT \o <<"/">> \o bucket \o <<"/">> \o dest_key

\* the policy of organize_all_root_files (line 108): a failed move adds nothing
append_move_result_dropping(new_urls, u, new_url, moved) ==
    IF moved THEN Append(new_urls, new_url) ELSE new_urls

\* lines 148-153: what organize_files appends once move_file has returned
append_move_result(new_urls, u, new_url, moved) ==
    Append(new_urls, IF moved THEN new_url ELSE u)

NoMove ==
    [bucket |-> <<>>, source_key |-> <<>>, dest_key |-> <<>>]

\* The for loop of organize_files from item i on, up to its next storage
\* call: a URL that makes parse_minio_url raise and a URL whose key is
\* already in the folder are appended unchanged; the first other URL stops
\* the run at move_file's copy_object; past the last item the function
\* returns.
RECURSIVE RunLoop(_, _, _, _)
RunLoop(execution_folder, file_urls, i, new_urls) ==
    IF i > Len(file_urls)
    THEN [pc |-> "done", i |-> i, new_urls |-> new_urls, move |-> NoMove]
    ELSE LET u == file_urls[i]
         IN  IF u = JsonNumber
             THEN RunLoop(execution_folder, file_urls, i + 1, Append(new_urls, u))
             ELSE LET ref == organize_parse_minio_url(u)
                  IN  IF already_in_folder(ref[2], execution_folder)
                      THEN RunLoop(execution_folder, file_urls, i + 1,
                                   Append(new_urls, u))
                      ELSE [pc |-> "copy", i |-> i, new_urls |-> new_urls,
                            move |-> [bucket |-> ref[1], source_key |-> ref[2],
                                      dest_key |-> dest_key_of(execution_folder,
                                                               ref[2])]]

\* what move_file did, as seen when it returned
NoMoveLog ==
    [copy |-> "none", delete |-> "none", returned |-> FALSE,
     src_before |-> "absent", src_after |-> "absent", dst_after |-> "absent",
     move |-> NoMove]

IdleRequest ==
    [pc |-> "idle", execution_folder |-> <<>>, file_urls |-> <<>>,
     new_urls |-> <<>>, i |-> 0, move |-> NoMove,
     calls |-> 0, storage_calls |-> 0, last_move |-> NoMoveLog]

\* the state of request r once the loop has run on from item i
Continue(r, i, new_urls, log, ncalls) ==
    LET run == RunLoop(req[r].execution_folder, req[r].file_urls, i, new_urls)
    IN  [req EXCEPT ![r] = [@ EXCEPT !.pc = run.pc, !.i = run.i,
                                      !.new_urls = run.new_urls,
                                      !.move = run.move,
                                      !.storage_calls = @ + ncalls,
                                      !.last_move = log]]

\* whether this storage call goes through as far as the backend is concerned
CallOutcomes == IF backend = "unreliable" THEN BOOLEAN ELSE {TRUE}

\* organize_files is called: the loop runs to its first storage call
OrganizeStart(r) ==
    /\ req[r].pc = "idle"
    /\ \E folder \in Folders, urls \in UrlLists :
        LET run == RunLoop(folder, urls, 1, <<>>)
        IN  req' = [req EXCEPT ![r] =
                        [@ EXCEPT !.pc = run.pc, !.i = run.i,
                                  !.execution_folder = folder,
                                  !.file_urls = urls,
                                  !.new_urls = run.new_urls,
                                  !.move = run.move,
                                  !.calls = 1]]
    /\ UNCHANGED <<codecVars, store, convertVars, backend, faults, store0, root>>

\* the caller sends the same request once more
OrganizeAgain(r) ==
    /\ req[r].pc = "done"
    /\ req[r].calls < MaxCalls
    /\ LET run == RunLoop(req[r].execution_folder, req[r].file_urls, 1, <<>>)
       IN  req' = [req EXCEPT ![r] =
                       [@ EXCEPT !.pc = run.pc, !.i = run.i,
                                 !.new_urls = run.new_urls,
                                 !.move = run.move,
                                 !.calls = @ + 1]]
    /\ UNCHANGED <<codecVars, store, convertVars, backend, faults, store0, root>>

\* move_file, lines 50-57: copy_object. When it raises, move_file returns
\* False without calling delete_object and the loop goes on.
CopyStep(r) ==
    /\ req[r].pc = "copy"
    /\ \E ok \in CallOutcomes :
        LET m   == req[r].move
            c   == copy_object(store, m.bucket, m.source_key, m.dest_key, ok)
            log == [copy |-> IF c.raised THEN "failed" ELSE "ok",
                    delete |-> "none", returned |-> FALSE,
                    src_before |-> Stored(store, m.bucket, m.source_key),
                    src_after |-> Stored(c.store, m.bucket, m.source_key),
                    dst_after |-> Stored(c.store, m.bucket, m.dest_key),
                    move |-> m]
        IN  /\ store' = c.store
            /\ faults' = IF ok THEN faults ELSE faults + 1
            /\ IF c.raised
               THEN req' = Continue(r, req[r].i + 1,
                                    append_move_result(req[r].new_urls,
                                        req[r].file_urls[req[r].i],
                                        new_url_of(m.bucket, m.dest_key), FALSE),
                                    log, 1)
               ELSE req' = [req EXCEPT ![r] =
                               [@ EXCEPT !.pc = "delete",
                                         !.storage_calls = @ + 1,
                                         !.last_move = log]]
    /\ UNCHANGED <<codecVars, convertVars, backend, store0, root>>

\* move_file, lines 59-66: delete_object, move_file's return value, and the
\* loop up to the next storage call
DeleteStep(r) ==
    /\ req[r].pc = "delete"
    /\ \E ok \in CallOutcomes :
        LET m     == req[r].move
            d     == delete_object(store, m.bucket, m.source_key, ok)
            moved == move_file_result(d.raised)
            log   == [req[r].last_move EXCEPT
                        !.delete = IF d.raised THEN "failed" ELSE "ok",
                        !.returned = moved,
                        !.src_after = Stored(d.store, m.bucket, m.source_key),
                        !.dst_after = Stored(d.store, m.bucket, m.dest_key)]
        IN  /\ store' = d.store
            /\ faults' = IF ok THEN faults ELSE faults + 1
            /\ req' = Continue(r, req[r].i + 1,
                               append_move_result(req[r].new_urls,
                                   req[r].file_urls[req[r].i],
                                   new_url_of(m.bucket, m.dest_key), moved),
                               log, 1)
    /\ UNCHANGED <<codecVars, convertVars, backend, store0, root>>

OrganizeInit ==
    /\ CodecUnused
    /\ ConvertUnused
    /\ store \in OrganizeStores
    /\ store0 = store
    /\ req = [r \in {1} |-> IdleRequest]
    /\ backend = "unreliable"
    /\ faults = 0
    /\ root = NoRootCall

OrganizeNext ==
    \/ \E r \in DOMAIN req : OrganizeStart(r)
    \/ \E r \in DOMAIN req : OrganizeAgain(r)
    \/ \E r \in DOMAIN req : CopyStep(r)
    \/ \E r \in DOMAIN req : DeleteStep(r)

SpecOrganize == OrganizeInit /\ [][OrganizeNext]_vars

----------------------------------------------------------------------------
(* organize_all_root_files, organize.py lines 68-116 *)

\* the code point of a character, for the order in which keys are listed
CodePoint(c) ==
    CASE c = "/" -> 47  [] c = "a" -> 97  [] c = "b" -> 98  [] c = "c" -> 99
      [] c = "d" -> 100 [] c = "e" -> 101 [] c = "f" -> 102 [] c = "g" -> 103
      [] c = "p" -> 112 [] c = "q" -> 113 [] OTHER -> 120

\* a sorts before b as a string
RECURSIVE KeyLess(_, _)
KeyLess(a, b) ==
    IF a = <<>> THEN b # <<>>
    ELSE IF b = <<>> THEN FALSE
    ELSE IF a[1] = b[1] THEN KeyLess(Tail(a), Tail(b))
    ELSE CodePoint(a[1]) < CodePoint(b[1])

\* the keys of K in ascending order
RECURSIVE SortKeys(_)
SortKeys(K) ==
    IF K = {} THEN <<>>
    ELSE LET least == CHOOSE k \in K : \A j \in K \ {k} : KeyLess(k, j)
         IN  <<least>> \o SortKeys(K \ {least})

\* list_objects_v2(Bucket=bucket) called once, without a continuation token:
\* the first page of the bucket's keys in key order
list_objects_v2(st, bucket) ==
    LET keys == SortKeys({o.key : o \in {x \in st : x.bucket = bucket}})
    IN  SubSeq(keys, 1, IF Len(keys) < PageSize THEN Len(keys) ELSE PageSize)

\* move_file as a whole: copy_object, then delete_object unless the copy
\* raised, and False for either exception
move_file(st, bucket, source_key, dest_key, copy_ok, delete_ok) ==
    LET c == copy_object(st, bucket, source_key, dest_key, copy_ok)
    IN  IF c.raised THEN [store |-> c.store, returned |-> FALSE]
        ELSE LET d == delete_object(c.store, bucket, source_key, delete_ok)
             IN  [store |-> d.store, returned |-> move_file_result(d.raised)]

\* lines 94-99: an object is left alone when its key holds a '/' or is the
\* execution folder's own name
skipped_at_root(source_key, execution_folder) ==
    \/ Find(source_key, "/") # 0
    \/ source_key = execution_folder
    \/ source_key = execution_folder \o <<"/">>

\* the for loop of lines 90-111 from entry i of Contents on; copy_fail and
\* delete_fail are the keys whose copy_object or delete_object call fails
RECURSIVE root_loop(_, _, _, _, _, _, _, _)
root_loop(Contents, i, st, new_urls, execution_folder, bucket, copy_fail, delete_fail) ==
    IF i > Len(Contents) THEN [store |-> st, new_urls |-> new_urls]
    ELSE LET source_key == Contents[i]
         IN  IF skipped_at_root(source_key, execution_folder)
             THEN root_loop(Contents, i + 1, st, new_urls, execution_folder,
                            bucket, copy_fail, delete_fail)
             ELSE LET dest_key == execution_folder \o <<"/">> \o basename(source_key)
                      m == move_file(st, bucket, source_key, dest_key,
                                     source_key \notin copy_fail,
                                     source_key \notin delete_fail)
                  IN  root_loop(Contents, i + 1, m.store,
                                IF m.returned
                                THEN Append(new_urls, new_url_of(bucket, dest_key))
                                ELSE new_urls,
                                execution_folder, bucket, copy_fail, delete_fail)

\* the root objects a bucket may hold at the start: PageSize + 1 of them
RootNames == <<"a", "b", "c", "d", "f", "g">>

RootObjects ==
    {Obj(MINIO_BUCKET, <<RootNames[i]>>, RootNames[i]) : i \in 1..(PageSize + 1)}

\* beside them: an object named like folder "e", and objects inside folders
OtherObjects ==
    { Obj(MINIO_BUCKET, <<"e">>, "marker"),
      Obj(MINIO_BUCKET, <<"e", "/", "x">>, "c4"),
      Obj(MINIO_BUCKET, <<"p", "/", "a">>, "c5") }

RootInit ==
    /\ CodecUnused
    /\ ConvertUnused
    /\ store \in {R \cup S : R \in SUBSET RootObjects, S \in SUBSET OtherObjects}
    /\ store0 = store
    /\ req = <<>>
    /\ backend \in {"reliable", "unreliable"}
    /\ faults = 0
    /\ root = NoRootCall

\* organize_all_root_files(execution_folder) on the default bucket: the
\* listing, which may raise (lines 113-114: the empty list is returned), and
\* the loop over the listed keys
OrganizeAllRootFiles ==
    /\ root.pc = "idle"
    /\ \E execution_folder \in Folders, list_ok \in CallOutcomes :
        LET Contents == IF list_ok THEN list_objects_v2(store, MINIO_BUCKET)
                        ELSE <<>>
            movable  == {Contents[i] : i \in 1..Len(Contents)}
        IN  \E copy_fail \in SUBSET (IF backend = "unreliable" THEN movable ELSE {}) :
            \E delete_fail \in
                    SUBSET (IF backend = "unreliable" THEN movable \ copy_fail ELSE {}) :
                LET run == root_loop(Contents, 1, store, <<>>, execution_folder,
                                     MINIO_BUCKET, copy_fail, delete_fail)
                    attempted == {k \in copy_fail \cup delete_fail :
                                    ~skipped_at_root(k, execution_folder)}
                IN  /\ store' = run.store
                    /\ faults' = faults + Cardinality(attempted)
                                        + (IF list_ok THEN 0 ELSE 1)
                    /\ root' = [pc |-> "done",
                                execution_folder |-> execution_folder,
                                bucket |-> MINIO_BUCKET,
                                Contents |-> Contents,
                                listed |-> list_ok,
                                new_urls |-> run.new_urls]
    /\ UNCHANGED <<codecVars, convertVars, req, backend, store0>>

RootNext == OrganizeAllRootFiles

SpecRoot == RootInit /\ [][RootNext]_vars

\* the keys of a bucket's objects that hold no '/'
RootKeys(st, bucket) ==
    {o.key : o \in {x \in st : x.bucket = bucket /\ Find(x.key, "/") = 0}}

\* C5: after organize_all_root_files(execution_folder, bucket) has returned,
\* and no storage call has failed, no object is left at the bucket root
\* under a '/'-free key other than the folder's own name, and each of the N
\* root objects the bucket held is stored under execution_folder + '/'.
C5_AllRootObjectsMoved ==
    (root.pc = "done" /\ faults = 0) =>
        /\ RootKeys(store, root.bucket) \subseteq {root.execution_folder}
        /\ \A k \in RootKeys(store0, root.bucket) \ {root.execution_folder} :
              Stored(store, root.bucket, root.execution_folder \o <<"/">> \o k)
                  = Stored(store0, root.bucket, k)

----------------------------------------------------------------------------
(* Concurrent organize_files requests *)

\* two requests served by concurrently dispatched workers, their storage
\* calls interleaved in any order, on a backend that does not fail on its own
ConcurrentInit ==
    /\ CodecUnused
    /\ ConvertUnused
    /\ store \in OrganizeStores
    /\ store0 = store
    /\ req = [r \in {1, 2} |-> IdleRequest]
    /\ backend = "reliable"
    /\ faults = 0
    /\ root = NoRootCall

ConcurrentNext ==
    \/ \E r \in DOMAIN req : OrganizeStart(r)
    \/ \E r \in DOMAIN req : CopyStep(r)
    \/ \E r \in DOMAIN req : DeleteStep(r)

SpecConcurrent == ConcurrentInit /\ [][ConcurrentNext]_vars

----------------------------------------------------------------------------
(* Claims about organize_files and move_file, checked under SpecOrganize *)

IsString(u) == u # JsonNumber

RefOf(u) == organize_parse_minio_url(u)

\* the URL inside the folder that organize_files builds for the URL u
UrlInFolder(execution_folder, u) ==
    new_url_of(RefOf(u)[1], execution_folder \o <<"/">> \o basename(RefOf(u)[2]))

\* C2: organize_files returns a list as long as its input whose i-th element
\* is the new URL of the i-th input inside the folder or the i-th input
\* unchanged, also when items fail to move or raise.
C2_OrderAndCardinality ==
    \A r \in DOMAIN req :
        req[r].pc = "done" =>
            /\ Len(req[r].new_urls) = Len(req[r].file_urls)
            /\ \A i \in 1..Len(req[r].file_urls) :
                  \/ req[r].new_urls[i] = req[r].file_urls[i]
                  \/ /\ IsString(req[r].file_urls[i])
                     /\ req[r].new_urls[i] =
                            UrlInFolder(req[r].execution_folder, req[r].file_urls[i])

\* C2's case: the first item failed to move (a storage call failed), the
\* last item raised, and the list came back whole
C2_Witness ==
    \E r \in DOMAIN req :
        /\ req[r].pc = "done"
        /\ faults >= 1
        /\ Len(req[r].file_urls) >= 2
        /\ req[r].file_urls[1] = Url(<<"/", "n", "/", "x">>)
        /\ req[r].file_urls[Len(req[r].file_urls)] = JsonNumber
        /\ req[r].last_move.returned = FALSE
        /\ req[r].new_urls = req[r].file_urls

\* C6: when delete_object fails after copy_object succeeded, move_file
\* returns False and the object is stored at both keys; when copy_object
\* fails, delete_object is not called and the source is as it was.
C6_PartialMove ==
    \A r \in DOMAIN req :
        LET m == req[r].last_move
        IN  /\ (m.copy = "ok" /\ m.delete = "failed") =>
                /\ m.returned = FALSE
                /\ m.src_before # "absent"
                /\ m.src_after = m.src_before
                /\ m.dst_after = m.src_before
            /\ m.copy = "failed" =>
                /\ m.delete = "none"
                /\ m.returned = FALSE
                /\ m.src_after = m.src_before

\* C6's case: a move whose copy went through and whose delete failed
C6_Witness ==
    \E r \in DOMAIN req :
        /\ req[r].last_move.copy = "ok"
        /\ req[r].last_move.delete = "failed"
        /\ req[r].pc = "done"

\* every URL of the request is a string whose key lies inside the folder
AllInsideFolder(r) ==
    \A i \in 1..Len(req[r].file_urls) :
        /\ IsString(req[r].file_urls[i])
        /\ StartsWith(RefOf(req[r].file_urls[i])[2],
                      req[r].execution_folder \o <<"/">>)

\* C8: organize_files called with URLs that are all inside the folder
\* returns them unchanged, the second time as the first, makes no storage
\* call, and leaves the storage as it was.
C8_Idempotent ==
    \A r \in DOMAIN req :
        (req[r].pc = "done" /\ AllInsideFolder(r)) =>
            /\ req[r].new_urls = req[r].file_urls
            /\ req[r].storage_calls = 0
            /\ store = store0

\* C8's case: the second of two calls with two URLs inside the folder
C8_Witness ==
    \E r \in DOMAIN req :
        /\ req[r].pc = "done"
        /\ req[r].calls = 2
        /\ Len(req[r].file_urls) >= 2
        /\ AllInsideFolder(r)
        /\ req[r].new_urls = req[r].file_urls
        /\ store # {}

\* the request names distinct objects that exist before it runs
NamesDistinctExisting(r) ==
    /\ \A i \in 1..Len(req[r].file_urls) :
          /\ IsString(req[r].file_urls[i])
          /\ Exists(store0, RefOf(req[r].file_urls[i])[1],
                    RefOf(req[r].file_urls[i])[2])
    /\ \A i, j \in 1..Len(req[r].file_urls) :
          i # j => RefOf(req[r].file_urls[i]) # RefOf(req[r].file_urls[j])

\* C9: when no storage call fails, organize_files on URLs naming distinct
\* existing objects keeps every content the bucket held, and distinct input
\* objects end up at distinct keys.
C9_NoContentDestroyed ==
    \A r \in DOMAIN req :
        (/\ req[r].pc = "done"
         /\ req[r].calls = 1
         /\ faults = 0
         /\ NamesDistinctExisting(r)) =>
            /\ \A o \in store0 : \E o2 \in store : o2.content = o.content
            /\ \A i, j \in 1..Len(req[r].new_urls) :
                  i # j => req[r].new_urls[i] # req[r].new_urls[j]

----------------------------------------------------------------------------
(* Claim about concurrent requests, checked under SpecConcurrent *)

\* the URL names an object that is stored
UrlExists(u) == IsString(u) /\ Exists(store, RefOf(u)[1], RefOf(u)[2])

\* C10: once two concurrent requests for one existing object URL and one
\* folder have finished on a backend that does not fail on its own, the
\* object is stored at the destination key and every URL either request
\* returned names a stored object.
C10_ReturnedUrlsExist ==
    \A u \in OrganizeUrls \ {JsonNumber}, folder \in Folders :
        (/\ \A r \in DOMAIN req :
               /\ req[r].pc = "done"
               /\ req[r].execution_folder = folder
               /\ req[r].file_urls = <<u>>
         /\ faults = 0
         /\ Exists(store0, RefOf(u)[1], RefOf(u)[2])) =>
            /\ Exists(store, RefOf(u)[1], dest_key_of(folder, RefOf(u)[2]))
            /\ \A r \in DOMAIN req :
                  \A i \in 1..Len(req[r].new_urls) : UrlExists(req[r].new_urls[i])

\* the rider of C10: the same for one request whose list holds the URL twice
SameUrlTwiceReturnedUrlsExist ==
    \A u \in OrganizeUrls \ {JsonNumber}, folder \in Folders :
        (/\ req[1].pc = "done"
         /\ req[1].execution_folder = folder
         /\ req[1].file_urls = <<u, u>>
         /\ \A r \in DOMAIN req \ {1} : req[r].pc = "idle"
         /\ faults = 0
         /\ Exists(store0, RefOf(u)[1], RefOf(u)[2])) =>
            /\ Exists(store, RefOf(u)[1], dest_key_of(folder, RefOf(u)[2]))
            /\ \A i \in 1..Len(req[1].new_urls) : UrlExists(req[1].new_urls[i])

----------------------------------------------------------------------------
(* Claims about convert_video, checked under SpecConvert *)

C3_NoOutputIsExecutionError ==
    (cpc = "returned" /\ result.outcome = "zero" /\ result.effect # "written") =>
        /\ response.status = 500
        /\ ~response.success
        /\ uploads = <<>>

====
